---- MODULE Spec2Model ----
(***************************************************************************)
(* RepoRover (src/RepoRover/RepoRover.py): a batch job that reads a        *)
(* listing page, fetches the README of every linked repository on a        *)
(* thread pool and appends one CSV row per repository.                     *)
(*                                                                         *)
(* Spec      : runs of main() against a fixed web (listing + repo pages).  *)
(* FetchSpec : one direct call get_readme_content(repo_url, retries=r).    *)
(* NormSpec  : one direct call preprocess_content(content, mode).          *)
(* PoolSpec  : one run of main() with more work than the pool has threads. *)
(***************************************************************************)
EXTENDS Naturals, Sequences, FiniteSets

VARIABLES
    run,            \* which invocation of main() this is (1, 2, ...)
    mainpc,         \* position of the main thread inside main()
    fileExists,     \* os.path.isfile(csv_file_path)
    file,           \* lines of readmeMD.csv, the header line first
    existed0,       \* fileExists when this run of main() started
    file0,          \* file when this run of main() started
    existing_data,  \* main(): rows read by csv.DictReader
    repo_urls,      \* main(): result of get_repo_urls
    listGets,       \* number of GETs of the explore page in this run
    tasks,          \* work items submitted to the ThreadPoolExecutor
    summary,        \* TRUE once line 238 has logged "Scouring completed"
    listing,        \* the web: what the explore page answers
    web,            \* the web: what each repository URL answers
    call,           \* FetchSpec: frame of the direct get_readme_content call
    site,           \* FetchSpec: the repository the direct call is aimed at
    norm            \* NormSpec: frame of the direct preprocess_content call

vars == <<run, mainpc, fileExists, file, existed0, file0, existing_data,
          repo_urls, listGets, tasks, summary, listing, web, call, site,
          norm>>

mainVars == <<run, mainpc, fileExists, file, existed0, file0, existing_data,
              repo_urls, listGets, tasks, summary, listing, web>>

----------------------------------------------------------------------------
(* Bounds of the model *)

MaxUrls    == 2     \* longest list of links on the explore page
MaxRecords == 2     \* most rows in the CSV file when the first run starts
MaxRuns    == 2     \* invocations of main() in one behaviour
MaxRetries == 3     \* FetchSpec: largest retry budget r passed by the caller
MaxK       == 5     \* FetchSpec: most non-200 answers before the page's 200
MaxTokens  == 2     \* NormSpec: most pieces (words, tags) of the input text
PoolTasks  == 5     \* PoolSpec: records in the file and links on the page

Hrefs   == {"/a/one", "/b/two"}
Names   == {"alpha", "beta", "gamma"}
NoName  == "<no h1.public>"

SeqsUpTo(S, n) == UNION {[1..m -> S] : m \in 0..n}

----------------------------------------------------------------------------
(* Module-level configuration, lines 14-20 *)

base_url    == "https://github.com"
max_workers == 4
default_retries == 3

\* headers, line 20: one CSV line is modelled as a record of its four cells,
\* and the header line is the record of the four column names.
headers ==
    [at      |-> "Processed At",
     name    |-> "Repository Name",
     url     |-> "Homepage URL",
     content |-> "Processed Readme.MD Content"]

\* Names bound in the module's global namespace: the imports of lines 1-11
\* and the module's own definitions.  The name "time" is not among them.
ModuleGlobals ==
    {"datetime", "concurrent", "os", "BeautifulSoup", "csv", "logging",
     "requests", "PorterStemmer", "WordNetLemmatizer", "word_tokenize",
     "stopwords",
     "base_url", "csv_file_path", "max_workers", "headers",
     "get_repo_urls", "get_readme_content", "preprocess_content",
     "write_to_csv", "process_repository", "main"}

\* Line 1 binds "datetime" to the datetime MODULE; these are its attributes.
\* The module has no attribute "now" (that is datetime.datetime.now).
DatetimeModuleAttrs ==
    {"date", "time", "datetime", "timedelta", "timezone", "tzinfo",
     "MINYEAR", "MAXYEAR"}

----------------------------------------------------------------------------
(* The web.  A repository page is described by what its server answers:    *)
(*   page   "exc"    requests.get raises (connection error, timeout)       *)
(*          "status" it answers non-200 to the first k GETs of a call and  *)
(*                   200 from then on                                      *)
(*   link   whether the 200 page holds <a id="readme-permalink" href=..>   *)
(*   readme what the GET of the permalink does: "exc", "non200" or "ok"    *)
(*   empty  whether the README body is the empty string                    *)
(*   h1     .text.strip() of the README's <h1 class="public">, or NoName   *)
(*          when the README has no such element                            *)

Site(page, k, link, readme, empty, h1) ==
    [page |-> page, k |-> k, link |-> link, readme |-> readme,
     empty |-> empty, h1 |-> h1]

\* The distinguishable repositories whose page gives k non-200 answers.
StatusSites(k) ==
    {Site("status", k, FALSE, "ok", FALSE, NoName)}
    \cup {Site("status", k, TRUE, r, FALSE, NoName) : r \in {"exc", "non200"}}
    \cup {Site("status", k, TRUE, "ok", TRUE, NoName)}
    \cup {Site("status", k, TRUE, "ok", FALSE, h) : h \in Names \cup {NoName}}

ExcSite == Site("exc", 0, FALSE, "ok", FALSE, NoName)

\* Status code of the (n+1)-th GET of the repository page within one call.
PageStatus(s, n) == IF n < s.k THEN 503 ELSE 200

\* An absolute URL is base_url followed by the href (lines 42 and 72).
AbsUrl(href) == <<base_url, href>>
Urls == {AbsUrl(h) : h \in Hrefs}

----------------------------------------------------------------------------
(* get_readme_content, lines 51-95.                                        *)
(* A frame holds the arguments and the progress of one (possibly           *)
(* recursive) call: retries is the current value of the parameter, gets    *)
(* and rgets count the GETs of the repository page and of the permalink    *)
(* issued so far, pc is "page" before line 63, "readme" before line 75,    *)
(* "returned" after the return.                                            *)

None == [isNone |-> TRUE, empty |-> TRUE, h1 |-> NoName]
Text(s) == [isNone |-> FALSE, empty |-> s.empty, h1 |-> s.h1]

NewFrame(r) ==
    [retries |-> r, budget |-> r, gets |-> 0, rgets |-> 0,
     pc |-> "page", result |-> None]

NoFrame ==
    [retries |-> 0, budget |-> 0, gets |-> 0, rgets |-> 0,
     pc |-> "idle", result |-> None]

Return(f, v) == [f EXCEPT !.pc = "returned", !.result = v]

\* Lines 89-95 without the two handlers: the exception leaves the call.
OnException_propagate(f) == [f EXCEPT !.pc = "raised"]

\* Lines 89-95: an exception raised anywhere in the try block (lines 63-87)
\* is caught by one of the two handlers, logged, and line 95 returns None.
OnException(f) == Return(f, None)

\* Line 84, time.sleep(1): the name "time" is looked up in the module's
\* globals; when it is absent the lookup raises NameError, which the
\* handler of line 92 catches, and line 95 returns None.
SleepThenRetry(f) ==
    IF "time" \in ModuleGlobals
    THEN [f EXCEPT !.retries = @ - 1, !.pc = "page"]       \* line 85
    ELSE OnException(f)                                    \* lines 92-95

\* Lines 63-87: the GET of the repository page and what follows it, up to
\* the next GET or the return.
GetPage(f, s) ==
    LET f1 == [f EXCEPT !.gets = @ + 1] IN
    IF s.page = "exc" THEN OnException(f1)                 \* lines 89-95
    ELSE IF PageStatus(s, f.gets) = 200
         THEN IF s.link
              THEN [f1 EXCEPT !.pc = "readme"]             \* line 72
              ELSE Return(f1, None)                        \* lines 81, 95
         ELSE IF f.retries > 0
              THEN SleepThenRetry(f1)                      \* lines 83-85
              ELSE Return(f1, None)                        \* lines 87, 95

\* Lines 75-79: the GET of the permalink.
GetPermalink(f, s) ==
    LET f1 == [f EXCEPT !.rgets = @ + 1] IN
    IF s.readme = "exc" THEN OnException(f1)               \* lines 89-95
    ELSE IF s.readme = "ok" THEN Return(f1, Text(s))       \* line 77
    ELSE Return(f1, None)                                  \* lines 79, 95

\* One step of the call: the pending GET.
FrameStep(f, s) ==
    IF f.pc = "page" THEN GetPage(f, s) ELSE GetPermalink(f, s)

----------------------------------------------------------------------------
(* get_repo_urls, lines 26-48.  The explore page is described by resp      *)
(* ("exc": requests.get raises, "non200", "ok") and by the hrefs of the    *)
(* anchors the selector of line 41 matches.                                *)

Listings ==
    {[resp |-> r, links |-> <<>>] : r \in {"exc", "non200"}}
    \cup {[resp |-> "ok", links |-> l] : l \in SeqsUpTo(Hrefs, MaxUrls)}

\* get_repo_urls without the handler of lines 45-46.
get_repo_urls_outcome_uncaught(l) ==
    IF l.resp = "ok" THEN "return links"
    ELSE IF l.resp = "exc" THEN "raise"
    ELSE "return empty"

\* What the call does with the answer to its GET: "raise" would let the
\* exception leave the function, "retry" would issue another GET.
get_repo_urls_outcome(l) ==
    IF l.resp = "ok" THEN "return links"                   \* line 42
    ELSE "return empty"                                    \* lines 44-48

get_repo_urls(l) ==
    IF get_repo_urls_outcome(l) = "return links"
    THEN [i \in 1..Len(l.links) |-> AbsUrl(l.links[i])]    \* line 42
    ELSE <<>>                                              \* line 48

----------------------------------------------------------------------------
(* preprocess_content, lines 98-140.  A text is the sequence of its        *)
(* whitespace-separated pieces, each a word or an HTML tag; the returned   *)
(* string is the sequence of the tokens that line 138 joins with " ".      *)

Tags  == {"<b>"}
Words == {"The", "quick", "Fox", "and", "dog", "owned", "cans"}
Pieces == Words \cup Tags

\* Line 115, str.lower, piece by piece.
Lower(w) ==
    CASE w = "The" -> "the"
      [] w = "Fox" -> "fox"
      [] OTHER     -> w

\* Lines 118-119, BeautifulSoup(...).get_text(): the tags are dropped.
NotTag(x) == x \notin Tags
get_text(ps) == SelectSeq(ps, NotTag)

\* Line 122, word_tokenize: the words of the text, in order.
word_tokenize(ws) == ws

\* Line 125, stopwords.words("english"): the members of NLTK's list among
\* the lower-case words above and their reduced forms.
stop_words == {"the", "and", "own", "can"}

\* Line 126 without the test: every token is kept.
RemoveStopWords_none(tokens) == tokens

\* Line 126: the tokens that are not in stop_words.
NotStopWord(t) == t \notin stop_words
RemoveStopWords(tokens) == SelectSeq(tokens, NotStopWord)

\* Line 135, PorterStemmer().stem
Stem(t) ==
    CASE t = "owned" -> "own"        \* step 1b strips "ed"
      [] t = "cans"  -> "can"        \* step 1a strips "s"
      [] OTHER       -> t

\* Line 132, WordNetLemmatizer().lemmatize (part of speech: noun)
Lemmatize(t) ==
    CASE t = "cans" -> "can"         \* plural of the noun "can"
      [] OTHER      -> t

Reduce(custom_processing, t) ==
    IF custom_processing THEN Lemmatize(t) ELSE Stem(t)    \* lines 130-135

\* Lines 115-122: the tokens of the lower-cased, tag-free text.
Tokens(content) ==
    word_tokenize(get_text([i \in 1..Len(content) |-> Lower(content[i])]))

preprocess_content(content, custom_processing) ==
    LET filtered_tokens == RemoveStopWords(Tokens(content)) IN
    [i \in 1..Len(filtered_tokens) |->
        Reduce(custom_processing, filtered_tokens[i])]     \* lines 130-138

NoNorm ==
    [pc |-> "idle", content |-> <<>>, custom_processing |-> FALSE,
     out |-> <<>>]

----------------------------------------------------------------------------
(* The CSV file, lines 143-152 and 210-221 *)

Row(at, name, url, content) ==
    [at |-> at, name |-> name, url |-> url, content |-> content]

\* Lines 211-214 left out: main never creates the file.
EnsureFile_never(exists, f) == f

\* Lines 211-214 without the os.path.isfile test.
EnsureFile_always(exists, f) == <<headers>>

\* Lines 211-214: the file is opened with mode "w" exactly when it is absent.
EnsureFile(exists, f) == IF ~exists THEN <<headers>> ELSE f

\* Lines 217-221, csv.DictReader: the first line gives the keys, every
\* further line becomes one dict.
DictReader(f) == IF Len(f) = 0 THEN <<>> ELSE Tail(f)

\* Iterating a dict yields its keys: the column names of the first line.
DictIter(d) == <<headers.at, headers.name, headers.url, headers.content>>

\* Lines 150-152: open with mode "a" and write one row.
write_to_csv(f, data) == Append(f, data)

RowNames(rows) == {rows[i].name : i \in 1..Len(rows)}

----------------------------------------------------------------------------
(* process_repository, lines 155-197 *)

\* Line 180, any(repo_name == row["Repository Name"] for row in existing):
\* existing is the second argument of the call.  executor.map hands each
\* call ONE element of main's list, a dict, so "row" ranges over that
\* dict's keys, which are strings, and subscripting the first of them with
\* a string raises TypeError.
DuplicateCheck(repo_name, existing) ==
    IF Len(DictIter(existing)) = 0 THEN "new"              \* any(()) is False
    ELSE "TypeError"

\* Line 189, datetime.now(): an attribute lookup on the datetime module.
Now == IF "now" \in DatetimeModuleAttrs THEN "now" ELSE "AttributeError"

\* Lines 172-197, from the value get_readme_content returned to the end of
\* the call: how the call ends.
ProcessOutcome(content, existing) ==
    IF content.isNone \/ content.empty THEN "no_readme"    \* line 172
    ELSE IF content.h1 = NoName THEN "fault"               \* line 177
    ELSE IF DuplicateCheck(content.h1, existing) = "TypeError"
         THEN "fault"                                      \* line 180
    ELSE IF DuplicateCheck(content.h1, existing) = "dup"
         THEN "skipped"                                    \* lines 181-182
    ELSE IF Now = "AttributeError" THEN "fault"            \* line 189
    ELSE "written"                                         \* lines 196-197

Terminal == {"no_readme", "skipped", "written", "fault"}

Task(url, existing) ==
    [url |-> url, existing |-> existing, pc |-> "queued", frame |-> NoFrame]

\* Line 236, executor.map(process_repository, repo_urls, existing_data):
\* the iterables are zipped; these are the calls to make, one per pair, in
\* the order in which they are submitted.
ExecutorMap(urls, data) ==
    LET n == IF Len(urls) < Len(data) THEN Len(urls) ELSE Len(data) IN
    [i \in 1..n |-> Task(urls[i], data[i])]

\* Lines 235-238 had main consumed the iterator of executor.map: the first
\* failed future re-raises its exception in main.
ExecutorExit_reraise(ts) ==
    IF \E i \in 1..Len(ts) : ts[i].pc = "fault" THEN "raised" ELSE "joined"

\* Lines 235-238, leaving the "with" block: shutdown(wait=True) joins the
\* workers.  The iterator executor.map returned is never consumed, so the
\* exception stored in a failed future is never re-raised in main.
ExecutorExit(ts) == "joined"

Running(ts) == {i \in 1..Len(ts) : ts[i].pc \in {"fetch", "process"}}
Queued(ts)  == {i \in 1..Len(ts) : ts[i].pc = "queued"}

\* Line 235 with one thread per submitted call instead of max_workers.
PoolHasIdleWorker_unbounded(ts) == TRUE

\* Line 235, ThreadPoolExecutor(max_workers=max_workers): a queued call is
\* taken up only while fewer than max_workers calls are running.
PoolHasIdleWorker(ts) == Cardinality(Running(ts)) < max_workers

\* Lines 235-236 with shutdown(wait=False): main goes on at once.
JoinReady_nowait(ts) == TRUE

\* Lines 235-236, the end of the "with" block, shutdown(wait=True): main
\* goes on when every submitted call has ended.
JoinReady(ts) == \A i \in 1..Len(ts) : ts[i].pc \in Terminal

----------------------------------------------------------------------------
(* Initial states *)

\* The rows earlier runs may have left carry one of these names.
RecordedNames == {"alpha", "beta"}
InitRows == {Row("earlier", n, "prior", "processed") : n \in RecordedNames}

InitFiles ==
    {<<headers>> \o rows : rows \in SeqsUpTo(InitRows, MaxRecords)}

\* The repositories a run of main can meet: the page raises, is down for
\* longer than any retry budget, or answers 200 at once.
DownSite == Site("status", MaxK, FALSE, "ok", FALSE, NoName)
SpecSites == {ExcSite, DownSite} \cup StatusSites(0)

Linked(l) == {AbsUrl(l.links[i]) : i \in 1..Len(l.links)}

Init ==
    /\ run = 1
    /\ mainpc = "start"
    /\ fileExists \in BOOLEAN
    /\ file \in (IF fileExists THEN InitFiles ELSE {<<>>})
    /\ existed0 = fileExists
    /\ file0 = file
    /\ existing_data = <<>>
    /\ repo_urls = <<>>
    /\ listGets = 0
    /\ tasks = <<>>
    /\ summary = FALSE
    /\ listing \in Listings
    /\ web \in [Urls -> SpecSites]
    /\ \A u \in Urls \ Linked(listing) : web[u] = ExcSite
    /\ call = NoFrame
    /\ site = ExcSite
    /\ norm = NoNorm

----------------------------------------------------------------------------
(* main, lines 200-238 *)

\* Lines 211-214
MainEnsureFile ==
    /\ mainpc = "start"
    /\ file' = EnsureFile(fileExists, file)
    /\ fileExists' = TRUE
    /\ mainpc' = "read"
    /\ UNCHANGED <<run, existed0, file0, existing_data, repo_urls, listGets,
                   tasks, summary, listing, web, call, site, norm>>

\* Lines 217-221
MainReadExisting ==
    /\ mainpc = "read"
    /\ existing_data' = DictReader(file)
    /\ mainpc' = "listing"
    /\ UNCHANGED <<run, fileExists, file, existed0, file0, repo_urls, listGets,
                   tasks, summary, listing, web, call, site, norm>>

\* Lines 224-232: the call of get_repo_urls (one GET) and the test of its
\* result.  An exception leaving get_repo_urls would end main.
MainGetRepoUrls ==
    /\ mainpc = "listing"
    /\ listGets' = listGets + 1
    /\ IF get_repo_urls_outcome(listing) = "raise"
       THEN /\ mainpc' = "raised in get_repo_urls"
            /\ UNCHANGED repo_urls
       ELSE /\ repo_urls' = get_repo_urls(listing)
            /\ mainpc' = IF Len(repo_urls') = 0 THEN "done" ELSE "dispatch"
    /\ UNCHANGED <<run, fileExists, file, existed0, file0, existing_data,
                   tasks, summary, listing, web, call, site, norm>>

\* Lines 235-236, executor.map: the calls are handed to the executor one
\* submit at a time, while the pool's threads already run the calls handed
\* over before.  One step is one submit; after the last one (or at once,
\* when there is no call to make) main reaches the end of the "with" block.
MainDispatch ==
    /\ mainpc = "dispatch"
    /\ LET calls == ExecutorMap(repo_urls, existing_data) IN
       IF Len(tasks) < Len(calls)
       THEN /\ tasks' = Append(tasks, calls[Len(tasks) + 1])
            /\ mainpc' = IF Len(tasks') = Len(calls) THEN "join"
                         ELSE "dispatch"
       ELSE /\ tasks' = tasks
            /\ mainpc' = "join"
    /\ UNCHANGED <<run, fileExists, file, existed0, file0, existing_data,
                   repo_urls, listGets, summary, listing, web, call, site, norm>>

\* Lines 236-238: the end of the "with" block waits for every task, then
\* the summary is logged.
MainJoin ==
    /\ mainpc = "join"
    /\ JoinReady(tasks)
    /\ IF ExecutorExit(tasks) = "joined"
       THEN mainpc' = "done" /\ summary' = TRUE
       ELSE mainpc' = "raised in executor" /\ UNCHANGED summary
    /\ UNCHANGED <<run, fileExists, file, existed0, file0, existing_data,
                   repo_urls, listGets, tasks, listing, web, call, site, norm>>

\* The program is started again, on the file the last run left.
Rerun ==
    /\ mainpc = "done"
    /\ run < MaxRuns
    /\ run' = run + 1
    /\ mainpc' = "start"
    /\ existed0' = fileExists
    /\ file0' = file
    /\ existing_data' = <<>>
    /\ repo_urls' = <<>>
    /\ listGets' = 0
    /\ tasks' = <<>>
    /\ summary' = FALSE
    /\ UNCHANGED <<fileExists, file, listing, web, call, site, norm>>

----------------------------------------------------------------------------
(* The pool's worker threads *)

\* A worker thread takes the oldest queued work item; the pool has at most
\* max_workers threads (line 235).
TaskStart(i) ==
    /\ i \in Queued(tasks)
    /\ \A j \in Queued(tasks) : i <= j
    /\ PoolHasIdleWorker(tasks)
    /\ tasks' = [tasks EXCEPT ![i].pc = "fetch",
                              ![i].frame = NewFrame(default_retries)]
    /\ UNCHANGED <<run, mainpc, fileExists, file, existed0, file0,
                   existing_data, repo_urls, listGets, summary, listing, web,
                   call, site, norm>>

\* Line 169: one GET of get_readme_content(repo_url)
TaskFetch(i) ==
    /\ i \in 1..Len(tasks)
    /\ tasks[i].pc = "fetch"
    /\ LET f == FrameStep(tasks[i].frame, web[tasks[i].url]) IN
       tasks' = [tasks EXCEPT
                   ![i].frame = f,
                   ![i].pc = IF f.pc = "returned" THEN "process"
                             ELSE IF f.pc = "raised" THEN "fault"
                             ELSE "fetch"]
    /\ UNCHANGED <<run, mainpc, fileExists, file, existed0, file0,
                   existing_data, repo_urls, listGets, summary, listing, web,
                   call, site, norm>>

\* Lines 172-197
TaskProcess(i) ==
    /\ i \in 1..Len(tasks)
    /\ tasks[i].pc = "process"
    /\ LET t   == tasks[i]
           out == ProcessOutcome(t.frame.result, t.existing)
       IN /\ tasks' = [tasks EXCEPT ![i].pc = out]
          /\ file' = IF out = "written"
                     THEN write_to_csv(file,
                              Row(Now, t.frame.result.h1, t.url, "processed"))
                     ELSE file
    /\ UNCHANGED <<run, mainpc, fileExists, existed0, file0, existing_data,
                   repo_urls, listGets, summary, listing, web, call, site, norm>>

Next ==
    \/ MainEnsureFile
    \/ MainReadExisting
    \/ MainGetRepoUrls
    \/ MainDispatch
    \/ MainJoin
    \/ Rerun
    \/ \E i \in 1..Len(tasks) : TaskStart(i)
    \/ \E i \in 1..Len(tasks) : TaskFetch(i)
    \/ \E i \in 1..Len(tasks) : TaskProcess(i)

Spec == Init /\ [][Next]_vars

----------------------------------------------------------------------------
(* FetchSpec: get_readme_content(repo_url, retries=r) called on its own *)

FetchSites == {ExcSite} \cup UNION {StatusSites(k) : k \in 0..MaxK}

FetchInit ==
    /\ run = 1
    /\ mainpc = "idle"
    /\ fileExists = FALSE
    /\ file = <<>>
    /\ existed0 = FALSE
    /\ file0 = <<>>
    /\ existing_data = <<>>
    /\ repo_urls = <<>>
    /\ listGets = 0
    /\ tasks = <<>>
    /\ summary = FALSE
    /\ listing = [resp |-> "exc", links |-> <<>>]
    /\ web = [u \in Urls |-> ExcSite]
    /\ site \in FetchSites
    /\ \E r \in 0..MaxRetries : call = NewFrame(r)
    /\ norm = NoNorm

\* Lines 63-87: the GET of the repository page
CallGetPage ==
    /\ call.pc = "page"
    /\ call' = GetPage(call, site)
    /\ UNCHANGED <<mainVars, site, norm>>

\* Lines 75-79: the GET of the permalink
CallGetPermalink ==
    /\ call.pc = "readme"
    /\ call' = GetPermalink(call, site)
    /\ UNCHANGED <<mainVars, site, norm>>

FetchNext == CallGetPage \/ CallGetPermalink

FetchSpec == FetchInit /\ [][FetchNext]_vars

----------------------------------------------------------------------------
(* NormSpec: preprocess_content(content, custom_processing) called on its  *)
(* own                                                                     *)

NormInit ==
    /\ run = 1
    /\ mainpc = "idle"
    /\ fileExists = FALSE
    /\ file = <<>>
    /\ existed0 = FALSE
    /\ file0 = <<>>
    /\ existing_data = <<>>
    /\ repo_urls = <<>>
    /\ listGets = 0
    /\ tasks = <<>>
    /\ summary = FALSE
    /\ listing = [resp |-> "exc", links |-> <<>>]
    /\ web = [u \in Urls |-> ExcSite]
    /\ call = NoFrame
    /\ site = ExcSite
    /\ \E c \in SeqsUpTo(Pieces, MaxTokens), m \in BOOLEAN :
          norm = [pc |-> "call", content |-> c, custom_processing |-> m,
                  out |-> <<>>]

\* Lines 115-140
CallPreprocess ==
    /\ norm.pc = "call"
    /\ norm' = [norm EXCEPT
                  !.pc = "done",
                  !.out = preprocess_content(norm.content,
                                             norm.custom_processing)]
    /\ UNCHANGED <<mainVars, call, site>>

NormNext == CallPreprocess

NormSpec == NormInit /\ [][NormNext]_vars

----------------------------------------------------------------------------
(* PoolSpec: one run of main() in which, when the file and the explore     *)
(* page are there, PoolTasks calls are submitted to the pool.  The threads *)
(* are scheduled by the operating system and every request returns, so a   *)
(* step that can be taken is taken eventually.                             *)

PoolRows ==
    [i \in 1..PoolTasks |->
        Row("earlier", IF i % 2 = 1 THEN "alpha" ELSE "beta",
            "prior", "processed")]

PoolLinks == [i \in 1..PoolTasks |-> IF i % 2 = 1 THEN "/a/one" ELSE "/b/two"]

PoolListings ==
    {[resp |-> r, links |-> <<>>] : r \in {"exc", "non200", "ok"}}
    \cup {[resp |-> "ok", links |-> PoolLinks]}

PoolSites ==
    {ExcSite,
     Site("status", 0, FALSE, "ok", FALSE, NoName),
     Site("status", 0, TRUE, "ok", FALSE, "gamma")}

PoolInit ==
    /\ run = 1
    /\ mainpc = "start"
    /\ fileExists \in BOOLEAN
    /\ file = (IF fileExists THEN <<headers>> \o PoolRows ELSE <<>>)
    /\ existed0 = fileExists
    /\ file0 = file
    /\ existing_data = <<>>
    /\ repo_urls = <<>>
    /\ listGets = 0
    /\ tasks = <<>>
    /\ summary = FALSE
    /\ listing \in PoolListings
    /\ web \in [Urls -> PoolSites]
    /\ \A u \in Urls \ Linked(listing) : web[u] = ExcSite
    /\ call = NoFrame
    /\ site = ExcSite
    /\ norm = NoNorm

PoolNext ==
    \/ MainEnsureFile
    \/ MainReadExisting
    \/ MainGetRepoUrls
    \/ MainDispatch
    \/ MainJoin
    \/ \E i \in 1..Len(tasks) : TaskStart(i)
    \/ \E i \in 1..Len(tasks) : TaskFetch(i)
    \/ \E i \in 1..Len(tasks) : TaskProcess(i)

PoolSpec == PoolInit /\ [][PoolNext]_vars /\ WF_vars(PoolNext)

----------------------------------------------------------------------------
(* Properties *)

IsPrefix(a, b) == Len(a) <= Len(b) /\ SubSeq(b, 1, Len(a)) = a

\* The rows of a file: its lines after the header line.
FileRows(f) == IF Len(f) = 0 THEN <<>> ELSE Tail(f)

PastListing == mainpc \in {"dispatch", "join", "done"}

\* A repository whose README can be had: the page answers 200 within the
\* default budget, holds the permalink, and the permalink answers 200.
Fetchable(s) ==
    /\ s.page = "status" /\ s.k < default_retries
    /\ s.link /\ s.readme = "ok"

\* ... and whose README is non-empty and names the repository.
Named(s) == Fetchable(s) /\ ~s.empty /\ s.h1 # NoName

\* A task whose fetch returned a non-empty README naming the repository.
ParsedName(t) ==
    /\ t.pc \in Terminal
    /\ ~t.frame.result.isNone /\ ~t.frame.result.empty
    /\ t.frame.result.h1 # NoName

\* C1 (as claimed): a call with budget r against a page that answers
\* non-200 exactly k times and then 200, with a permalink that answers 200,
\* returns the README text if and only if k < r, and None otherwise.
C1_SucceedsIffBelowBudget ==
    (/\ call.pc = "returned"
     /\ site.page = "status" /\ site.link /\ site.readme = "ok")
    => IF site.k < call.budget
       THEN call.result = Text(site)
       ELSE call.result = None

\* C2 (as claimed): when main has finished, the file has gained one row per
\* listed URL whose README can be fetched and whose repository name was
\* not among the records loaded at startup, and the header line is still
\* the first line.
C2_OneRowPerNewRepository ==
    mainpc = "done" =>
        /\ Len(file) = Len(EnsureFile(existed0, file0))
             + Cardinality({i \in 1..Len(repo_urls) :
                   /\ Named(web[repo_urls[i]])
                   /\ web[repo_urls[i]].h1 \notin RowNames(existing_data)})
        /\ file[1] = headers

\* C3 (as claimed): a second run on the unchanged web and the file the
\* first run left appends no row, and every processed repository whose name
\* the file already records ends in the duplicate branch (lines 181-182).
C3_RerunSkipsRecorded ==
    (run >= 2 /\ mainpc = "done") =>
        /\ file = EnsureFile(existed0, file0)
        /\ \A i \in 1..Len(tasks) :
               (/\ ParsedName(tasks[i])
                /\ tasks[i].frame.result.h1 \in RowNames(FileRows(file0)))
               => tasks[i].pc = "skipped"

\* C5 (as claimed): once main has dispatched, every URL of the list has been
\* handed to process_repository exactly once, however many records the
\* file held at startup.
C5_EveryUrlDispatchedOnce ==
    (mainpc \in {"join", "done"} /\ Len(repo_urls) > 0) =>
        /\ Len(tasks) = Len(repo_urls)
        /\ \A i \in 1..Len(repo_urls) : tasks[i].url = repo_urls[i]

\* C6: a fault in one repository's pipeline stays in that pipeline: no
\* exception of a worker reaches main, while main waits some step of a
\* worker or the join itself can always be taken, and main ends with every
\* dispatched task at its end and the summary logged.
C6_FaultStaysInTask ==
    /\ mainpc # "raised in executor"
    /\ mainpc = "join" =>
          ENABLED (\/ MainJoin
                   \/ \E i \in 1..Len(tasks) :
                         TaskStart(i) \/ TaskFetch(i) \/ TaskProcess(i))
    /\ (mainpc = "done" /\ Len(repo_urls) > 0) =>
          /\ summary
          /\ \A i \in 1..Len(tasks) : tasks[i].pc \in Terminal

\* C6 witness: main has logged the summary after one task ended in a fault
\* and another task ran to its normal end.
C6_Witness ==
    /\ mainpc = "done" /\ summary
    /\ \E i, j \in 1..Len(tasks) :
          /\ i # j
          /\ tasks[i].pc = "fault"
          /\ tasks[j].pc \in Terminal \ {"fault"}

\* C7 (as claimed): a worker that parsed a repository name takes the
\* duplicate branch if the name is the Repository Name of some record
\* loaded at startup, and writes the row if it is not.
C7_SkipIffRecorded ==
    \A i \in 1..Len(tasks) :
        ParsedName(tasks[i]) =>
            IF tasks[i].frame.result.h1 \in RowNames(existing_data)
            THEN tasks[i].pc = "skipped"
            ELSE tasks[i].pc = "written"

\* C8: the file is append-only within a run: what it held when main started
\* stays a prefix of what it holds; a write that is not the appending of one
\* line is the creation of the file, which happens only when it was absent.
C8_AppendOnly ==
    /\ [](IsPrefix(file0, file))
    /\ [][file' # file =>
            \/ ~fileExists /\ file' = <<headers>>
            \/ fileExists /\ Len(file') = Len(file) + 1 /\ IsPrefix(file, file')
         ]_vars

\* C8 witness: a run that started on an existing file with records has
\* dispatched its workers and come to its end.
C8_Witness ==
    /\ existed0 /\ Len(file0) > 1
    /\ mainpc = "done" /\ Len(tasks) > 0

\* C9: get_repo_urls issues one GET; on a non-200 answer or an exception it
\* returns the empty list and raises nothing; with an empty list main ends
\* with no task submitted, no row appended and no summary.
C9_ListingFailsSoft ==
    /\ listGets <= 1
    /\ mainpc # "raised in get_repo_urls"
    /\ PastListing =>
          /\ listGets = 1
          /\ listing.resp # "ok" => repo_urls = <<>>
          /\ repo_urls = <<>> =>
                /\ mainpc = "done" /\ ~summary
                /\ tasks = <<>>
                /\ file = EnsureFile(existed0, file0)

\* C9 witness: main has ended after the explore page failed.
C9_Witness ==
    /\ mainpc = "done" /\ listing.resp # "ok" /\ listGets = 1

\* C10 (as claimed): against a page that answers non-200 to every attempt,
\* a call with budget r issues r+1 GETs of the page, never more, and
\* returns None.
C10_BudgetPlusOneGets ==
    (site.page = "status" /\ site.k > call.budget /\ call.pc # "idle") =>
        /\ call.gets <= call.budget + 1
        /\ call.pc = "returned" =>
              call.gets = call.budget + 1 /\ call.result = None

\* C11: an exception raised by either GET of get_readme_content does not
\* leave the call: the call has returned None right after the failed GET,
\* having issued no request after it.
C11_ExceptionsBecomeNone ==
    /\ call.pc # "raised"
    /\ (site.page = "exc" /\ call.gets > 0) =>
          /\ call.pc = "returned" /\ call.result = None
          /\ call.gets = 1 /\ call.rgets = 0
    /\ (site.readme = "exc" /\ call.rgets > 0) =>
          /\ call.pc = "returned" /\ call.result = None
          /\ call.rgets = 1

\* C11 witness: the call has returned after the GET of the permalink raised.
C11_Witness ==
    /\ site.readme = "exc" /\ call.rgets = 1 /\ call.pc = "returned"

\* C12: the header line is written by main, before the executor exists, and
\* by nobody else: from the dispatch on (so in every state in which a
\* worker runs or appends) the file exists, its first line is the header
\* line, and no later line is a header line.
C12_HeaderFirstAndOnce ==
    /\ (mainpc \in {"read", "listing", "dispatch", "join", "done"}
        \/ tasks # <<>>) =>
          /\ fileExists
          /\ Len(file) >= 1 /\ file[1] = headers
    /\ \A i \in 2..Len(file) : file[i] # headers

\* C12 witness: the file was absent, main wrote the header line, went
\* through the executor block and logged the summary.
C12_Witness ==
    /\ ~existed0 /\ file = <<headers>>
    /\ mainpc = "done" /\ summary

\* C13 (as claimed): no token of the returned string belongs to the
\* stopword set, whatever the input and the mode.
C13_NoStopwordInOutput ==
    norm.pc = "done" =>
        \A j \in 1..Len(norm.out) : norm.out[j] \notin stop_words

\* C13 (amended): the returned string holds one token for each token of the
\* input that is not a stopword and none for the others; a token of the
\* returned string is in the stopword set only as the reduced form of a
\* different input token that is not a stopword.
C13_StopwordsOfInputDropped ==
    norm.pc = "done" =>
        LET toks == Tokens(norm.content) IN
        /\ Len(norm.out) =
              Cardinality({i \in 1..Len(toks) : toks[i] \notin stop_words})
        /\ \A j \in 1..Len(norm.out) :
              norm.out[j] \in stop_words =>
                 \E i \in 1..Len(toks) :
                    /\ toks[i] \notin stop_words
                    /\ toks[i] # norm.out[j]
                    /\ Reduce(norm.custom_processing, toks[i]) = norm.out[j]

\* C13 witness: the call has returned on a text that holds a stopword and
\* another word.
C13_Witness ==
    /\ norm.pc = "done" /\ Len(norm.out) >= 1
    /\ \E i \in 1..Len(Tokens(norm.content)) :
          Tokens(norm.content)[i] \in stop_words

\* What the file holds in this run before any worker can write: what it
\* held at the start, with the header line once main has created it.
RunBase == IF mainpc = "start" THEN file0 ELSE EnsureFile(existed0, file0)

\* On this code no worker reaches write_to_csv (line 180 raises for every
\* row dict, line 189 would raise after it): in every state the file is
\* what main's create-if-absent step left.
NoRowEverAppended == file = RunBase

\* C15: the summary is logged only when every dispatched task has ended;
\* once it is logged no step changes the file; and main, once started,
\* comes to its end.
C15_SummaryAfterWorkers ==
    /\ [](summary => \A i \in 1..Len(tasks) : tasks[i].pc \in Terminal)
    /\ [][summary => file' = file]_vars
    /\ (mainpc = "start") ~> (mainpc = "done")

\* C15 witness: the summary is logged after all PoolTasks tasks ended, one
\* of them in a fault.
C15_Witness ==
    /\ summary /\ mainpc = "done"
    /\ Len(tasks) = PoolTasks
    /\ \E i \in 1..Len(tasks) : tasks[i].pc = "fault"

\* C16: never more than max_workers calls of process_repository are running,
\* and a call that has started can take its next step whatever the other
\* calls are doing.
C16_AtMostMaxWorkers ==
    /\ Cardinality(Running(tasks)) <= max_workers
    /\ \A i \in Running(tasks) : ENABLED (TaskFetch(i) \/ TaskProcess(i))

\* C16 witness: max_workers calls are running while another one waits in
\* the pool's queue.
C16_Witness ==
    /\ Cardinality(Running(tasks)) = max_workers
    /\ Queued(tasks) # {}

====
